---------------------------- MODULE Spec2Model ----------------------------
(***************************************************************************)
(* A model of the two example scripts of the repository:                   *)
(*   src/blocks/groundhog/examples/sine.py  (Readout, AddParameters,       *)
(*                                           SeriesIterator, main)         *)
(*   src/examples/mnist.py                  (main)                         *)
(* The module holds four state machines over disjoint groups of variables; *)
(* each specification moves one group and leaves the others idle:          *)
(*   WrapperSpec  AddParameters: construction, allocation config, apply,   *)
(*                the reported signature, initialize_state                 *)
(*   SeriesSpec   SeriesIterator.next on two iterators                     *)
(*   CostSpec     Readout.cost on a batch                                  *)
(*   MainSpec     the two main() scripts, statement by statement           *)
(***************************************************************************)
EXTENDS Integers, Sequences, FiniteSets, TLC

VARIABLES
    \* ---- AddParameters (sine.py 41-104)
    transition,     \* the signature the wrapped transition's apply reports
    num_params,     \* constructor argument
    params_name,    \* constructor argument
    brick,          \* the AddParameters object's own attributes
    applied,        \* the last call of apply: what it got, what it forwarded
    reported,       \* the last signature apply_signature returned
    requests,       \* the number of signature requests so far
    initState,      \* the last call of initialize_state
    \* ---- SeriesIterator (sine.py 107-124)
    floatX,         \* theano.config.floatX (sine.py 24)
    built,          \* the arguments each iterator was constructed with
    iters,          \* the two iterators' attributes
    calls,          \* the number of calls of next on each iterator
    outs,           \* what each iterator's last call of next produced
    globalRng,      \* numpy.random's module-level generator (never used)
    \* ---- Readout.cost (sine.py 28-38)
    readouts,
    outputs,
    costs,          \* the result of the last cost call, <<>> before it
    \* ---- main() of sine.py and of mnist.py
    env,            \* which optional imports of sine.py 8-13 succeed
    argv,           \* the parsed command line of the current sine.py run
    pc,             \* the statement main() of sine.py is at
    log,            \* the calls the current sine.py run has made, in order
    files,          \* the snapshot files on disk: path -> what was saved
    steps,          \* training steps of the current run
    nruns,          \* the number of sine.py runs started
    outcome,        \* how the last finished sine.py run ended
    mpc,            \* the statement main() of mnist.py is at
    mlog            \* the calls the mnist.py run has made, in order

wrapperVars == <<transition, num_params, params_name, brick, applied,
                 reported, requests, initState>>
seriesVars  == <<floatX, built, iters, calls, outs, globalRng>>
costVars    == <<readouts, outputs, costs>>
mainVars    == <<env, argv, pc, log, files, steps, nruns, outcome, mpc,
                 mlog>>
vars        == <<wrapperVars, seriesVars, costVars, mainVars>>

(***************************************************************************)
(* Bounds of the model.                                                    *)
(***************************************************************************)
MaxInputs   == 2    \* forkable inputs of a wrapped transition
MaxStates   == 2    \* state names of a wrapped transition
MaxContexts == 1    \* context names of a wrapped transition
MaxParams   == 2    \* num_params
MaxRequests == 2    \* signature requests

\* Python's None for a dimension that is not configured yet: the entries of
\* the dims list of MLP([Identity()]) before _push_allocation_config.
NoDim == 0

(***************************************************************************)
(* Python dictionaries and lists.                                          *)
(***************************************************************************)
EmptyDict == [k \in {} |-> 0]

\* d[k] = v
DictSet(d, k, v) == [x \in (DOMAIN d) \cup {k} |-> IF x = k THEN v ELSE d[x]]

\* d after d.pop(k) for every k of ks
DictDrop(d, ks) == [x \in (DOMAIN d) \ ks |-> d[x]]

\* d.update(e)
DictUpdate(d, e) ==
    [x \in (DOMAIN d) \cup (DOMAIN e) |-> IF x \in DOMAIN e THEN e[x] ELSE d[x]]

Range(s) == {s[i] : i \in DOMAIN s}

\* The lists of at most n distinct elements of S.
DistinctSeqs(S, n) ==
    {s \in UNION {[1..k -> S] : k \in 0..n} :
        \A i, j \in DOMAIN s : i # j => s[i] # s[j]}

\* How often x occurs in the list s.
Count(s, x) == Cardinality({i \in DOMAIN s : s[i] = x})

(***************************************************************************)
(* Symbolic (Theano) expressions: a variable, a brick applied to an        *)
(* expression, a sum.                                                      *)
(***************************************************************************)
Var(name)          == [op |-> "var", name |-> name, args |-> <<>>]
BrickApply(b, e)   == [op |-> "apply", name |-> b, args |-> <<e>>]
Plus(a, b)         == [op |-> "+", name |-> "", args |-> <<a, b>>]


(***************************************************************************)
(*                     AddParameters (sine.py 41-104)                      *)
(***************************************************************************)
\* Names a wrapped transition can declare.  GatedRecurrent (sine.py 162)
\* has the forkable inputs inputs, update_inputs, reset_inputs and the
\* state states; a context called "params" is what an AddParameters brick
\* itself declares, so a wrapped AddParameters has one.
InputNames   == {"inputs", "update_inputs", "reset_inputs"}
StateNames   == {"states", "cells"}
ContextNames == {"params", "attended"}
ParamsNames  == {"params", "context"}

\* Declared dimensions: every name 10 (GatedRecurrent(dim=10), sine.py
\* 163), or a different dimension per name.
DimTables ==
    { [n \in InputNames \cup StateNames \cup ContextNames |-> 10],
      [n \in InputNames \cup StateNames \cup ContextNames |->
          CASE n = "inputs"        -> 3
            [] n = "update_inputs" -> 4
            [] n = "reset_inputs"  -> 5
            [] n = "states"        -> 6
            [] n = "cells"         -> 7
            [] n = "params"        -> 8
            [] OTHER               -> 9] }

\* The signatures a wrapped transition's apply can report.
Signatures ==
    { [forkable_input_names |-> f,
       state_names          |-> s,
       context_names        |-> c,
       state_init_funcs     |-> [n \in Range(s) |-> "transition.initial_state"],
       dims                 |-> [n \in Range(f) \cup Range(s) \cup Range(c) |-> t[n]]] :
        f \in DistinctSeqs(InputNames, MaxInputs),
        s \in DistinctSeqs(StateNames, MaxStates),
        c \in DistinctSeqs(ContextNames, MaxContexts),
        t \in DimTables }

\* self.transition.apply.signature(): every call returns a signature object
\* of its own, so a change the caller makes to it is not seen by the next
\* call.
TransitionSignature == transition

\* MLP([Identity()], name=...): one linear transformation, its dims list
\* [input dimension, output dimension] not configured yet.
MLP(name) == [name |-> name, dims |-> <<NoDim, NoDim>>]

\* The object before __init__ has run.
NoBrick ==
    [status      |-> "unconstructed",
     input_names |-> <<>>,
     state_name  |-> "",
     adders      |-> <<>>,
     init        |-> <<>>,      \* <<>>: no attribute; <<m>>: the brick m
     children    |-> <<>>,
     pushed      |-> FALSE]

\* AddParameters.__init__ without its precondition check.
InitUnchecked(sig) ==
    LET names == sig.forkable_input_names IN
    IF Len(sig.state_names) = 0
    THEN [NoBrick EXCEPT !.status = "IndexError", !.input_names = names]
    ELSE LET adders == [i \in DOMAIN names |-> MLP("add_" \o names[i])] IN
         [NoBrick EXCEPT
            !.status      = "constructed",
            !.input_names = names,
            !.state_name  = sig.state_names[1],
            !.adders      = adders,
            !.init        = <<MLP("init")>>,
            !.children    = <<"transition">>
                            \o [i \in DOMAIN adders |-> adders[i].name]
                            \o <<"init">>]

\* AddParameters.__init__, statement by statement: the signature is read,
\* input_names and state_name are set (state_names[0] raises IndexError on
\* an empty list), the assertion runs, and only then adders, init and
\* children are set.
AddParametersInit(sig) ==
    LET names == sig.forkable_input_names IN
    IF Len(sig.state_names) = 0
    THEN [NoBrick EXCEPT !.status = "IndexError", !.input_names = names]
    ELSE IF Len(sig.state_names) # 1
    THEN [NoBrick EXCEPT !.status      = "AssertionError",
                         !.input_names = names,
                         !.state_name  = sig.state_names[1]]
    ELSE LET adders == [i \in DOMAIN names |-> MLP("add_" \o names[i])] IN
         [NoBrick EXCEPT
            !.status      = "constructed",
            !.input_names = names,
            !.state_name  = sig.state_names[1],
            !.adders      = adders,
            !.init        = <<MLP("init")>>,
            !.children    = <<"transition">>
                            \o [i \in DOMAIN adders |-> adders[i].name]
                            \o <<"init">>]

\* zip(self.adders, self.input_names): the pairs up to the shorter list.
ZipLen(a, b) == IF Len(a) < Len(b) THEN Len(a) ELSE Len(b)

\* _push_allocation_config with every adder given the state's dimension.
PushAllocationStateDims(b, sig, n) ==
    [b EXCEPT
       !.adders = [i \in DOMAIN b.adders |->
                     [b.adders[i] EXCEPT
                        !.dims = <<n, sig.dims[sig.state_names[1]]>>]],
       !.init   = <<[b.init[1] EXCEPT
                        !.dims = <<n, sig.dims[sig.state_names[1]]>>]>>,
       !.pushed = TRUE]

\* AddParameters._push_allocation_config: dims[0] and dims[-1] of every
\* adder paired with an input name, then of init.  The assertion that ends
\* it holds of every brick whose construction succeeded.
PushAllocationConfig(b, sig, n) ==
    [b EXCEPT
       !.adders = [i \in DOMAIN b.adders |->
                     IF i <= ZipLen(b.adders, b.input_names)
                     THEN [b.adders[i] EXCEPT
                             !.dims = <<n, sig.dims[b.input_names[i]]>>]
                     ELSE b.adders[i]],
       !.init   = <<[b.init[1] EXCEPT
                        !.dims = <<n, sig.dims[sig.state_names[1]]>>]>>,
       !.pushed = TRUE]

\* The keyword apply pops the parameter vector by, and the one
\* initialize_state reads it by.
ApplyParamsKey       == "params"
InitializeParamsKey  == params_name

\* Before the first call of apply.  forwarded: the keywords the wrapped
\* transition's apply is called with.
NoCall == [called |-> FALSE, outcome |-> "", kwargs |-> EmptyDict,
           forwarded |-> EmptyDict]

\* AddParameters.apply(**kwargs): pops the forkable inputs, pops the
\* parameter vector, adds each adder's output to its input, and calls the
\* wrapped transition with the remaining keywords updated by the inputs.
AddParametersApply(b, kwargs) ==
    IF ~(Range(b.input_names) \subseteq DOMAIN kwargs)
    THEN [NoCall EXCEPT !.called = TRUE, !.outcome = "KeyError",
                        !.kwargs = kwargs]
    ELSE
    LET rest1 == DictDrop(kwargs, Range(b.input_names)) IN
    IF ApplyParamsKey \notin DOMAIN rest1
    THEN [NoCall EXCEPT !.called = TRUE, !.outcome = "KeyError",
                        !.kwargs = kwargs]
    ELSE
    LET params == rest1[ApplyParamsKey]
        rest2  == DictDrop(rest1, {ApplyParamsKey})
        idx(n) == CHOOSE i \in DOMAIN b.input_names : b.input_names[i] = n
        inputs == [n \in Range(b.input_names) |->
                     IF idx(n) <= ZipLen(b.input_names, b.adders)
                     THEN Plus(kwargs[n],
                               BrickApply(b.adders[idx(n)].name, params))
                     ELSE kwargs[n]]
        fwd    == DictUpdate(rest2, inputs)
    IN  [called    |-> TRUE,
         outcome   |-> "ok",
         kwargs    |-> kwargs,
         forwarded |-> fwd]

\* apply_signature that writes the name "params", as apply does, where
\* params_name is meant.
ApplySignatureLiteral(b, sig) ==
    [sig EXCEPT
       !.context_names    = Append(sig.context_names, "params"),
       !.state_init_funcs = DictSet(sig.state_init_funcs, b.state_name,
                                    "with_params.initialize_state"),
       !.dims             = DictSet(sig.dims, "params", num_params)]

\* AddParameters.apply_signature: the wrapped signature with params_name
\* appended to the context names, the state's init function replaced and
\* the dimension of params_name declared.
ApplySignature(b, sig) ==
    [sig EXCEPT
       !.context_names    = Append(sig.context_names, params_name),
       !.state_init_funcs = DictSet(sig.state_init_funcs, b.state_name,
                                    "with_params.initialize_state"),
       !.dims             = DictSet(sig.dims, params_name, num_params)]

NoInit == [called |-> FALSE, outcome |-> "", kwargs |-> EmptyDict,
           result |-> Var("")]

\* AddParameters.initialize_state(*args, **kwargs)
InitializeState(b, kwargs) ==
    IF InitializeParamsKey \notin DOMAIN kwargs
    THEN [NoInit EXCEPT !.called = TRUE, !.outcome = "KeyError",
                        !.kwargs = kwargs]
    ELSE [called  |-> TRUE,
          outcome |-> "ok",
          kwargs  |-> kwargs,
          result  |-> BrickApply(b.init[1].name, kwargs[InitializeParamsKey])]

\* The signature object before any request.
NoSignature ==
    [forkable_input_names |-> <<>>, state_names |-> <<>>,
     context_names |-> <<>>, state_init_funcs |-> EmptyDict,
     dims |-> EmptyDict]

\* The keywords the recurrent framework calls apply with: one per forkable
\* input, state and context name of the signature the wrapper reports,
\* and a mask when there is one.  Every value is the variable of its name.
CallerKwargs(mask) ==
    LET sig  == ApplySignature(brick, TransitionSignature)
        keys == Range(sig.forkable_input_names) \cup Range(sig.state_names)
                \cup Range(sig.context_names)
                \cup (IF mask THEN {"mask"} ELSE {})
    IN  [k \in keys |-> Var(k)]

\* The keywords initialize_state is called with: the contexts.
ContextKwargs ==
    LET sig == ApplySignature(brick, TransitionSignature)
    IN  [k \in Range(sig.context_names) |-> Var(k)]

WrapperInit ==
    /\ transition \in Signatures
    /\ num_params \in 1..MaxParams
    /\ params_name \in ParamsNames
    /\ brick = NoBrick
    /\ applied = NoCall
    /\ reported = NoSignature
    /\ requests = 0
    /\ initState = NoInit

WrapperIdle ==
    /\ transition = NoSignature
    /\ num_params = 0
    /\ params_name = ""
    /\ brick = NoBrick
    /\ applied = NoCall
    /\ reported = NoSignature
    /\ requests = 0
    /\ initState = NoInit

\* with_params = AddParameters(transition, num_params, params_name)
Construct ==
    /\ brick.status = "unconstructed"
    /\ brick' = AddParametersInit(TransitionSignature)
    /\ UNCHANGED <<transition, num_params, params_name, applied, reported,
                   requests, initState>>
    /\ UNCHANGED <<seriesVars, costVars, mainVars>>

\* allocate() pushes the allocation configuration to the children.
PushAllocation ==
    /\ brick.status = "constructed"
    /\ ~brick.pushed
    /\ brick' = PushAllocationConfig(brick, TransitionSignature, num_params)
    /\ UNCHANGED <<transition, num_params, params_name, applied, reported,
                   requests, initState>>
    /\ UNCHANGED <<seriesVars, costVars, mainVars>>

\* One recurrence step: the framework calls apply.
Apply ==
    /\ brick.status = "constructed"
    /\ \E mask \in BOOLEAN :
          applied' = AddParametersApply(brick, CallerKwargs(mask))
    /\ UNCHANGED <<transition, num_params, params_name, brick, reported,
                   requests, initState>>
    /\ UNCHANGED <<seriesVars, costVars, mainVars>>

\* The framework asks for the signature of apply.
RequestSignature ==
    /\ brick.status = "constructed"
    /\ requests < MaxRequests
    /\ reported' = ApplySignature(brick, TransitionSignature)
    /\ requests' = requests + 1
    /\ UNCHANGED <<transition, num_params, params_name, brick, applied,
                   initState>>
    /\ UNCHANGED <<seriesVars, costVars, mainVars>>

\* The framework asks for the initial state.
CallInitializeState ==
    /\ brick.status = "constructed"
    /\ initState' = InitializeState(brick, ContextKwargs)
    /\ UNCHANGED <<transition, num_params, params_name, brick, applied,
                   reported, requests>>
    /\ UNCHANGED <<seriesVars, costVars, mainVars>>

WrapperNext ==
    \/ Construct
    \/ PushAllocation
    \/ Apply
    \/ RequestSignature
    \/ CallInitializeState

(***************************************************************************)
(*                    SeriesIterator (sine.py 107-124)                     *)
(***************************************************************************)
MaxSeqLen == 2      \* seq_len
MaxBatch  == 2      \* batch_size
MaxSeed   == 2      \* seeds of the random sources
MaxCalls  == 2      \* calls of next on one iterator

\* The random source: a generator state, one uniform draw per step.  The
\* draws stand for the floats of [0, 1): 0, 1, 2, 3 for 0, 1/4, 1/2, 3/4.
RandomState(seed) == seed % 16
RngStep(s)        == (5 * s + 3) % 16
RngDraw(s)        == s % 4

RECURSIVE RngAfter(_, _)
\* The generator state after n draws.
RngAfter(s, n) == IF n = 0 THEN s ELSE RngAfter(RngStep(s), n - 1)

\* rng.uniform(size=(rows, cols)): the draws fill the matrix row by row.
Uniform(s, rows, cols) ==
    [b \in 1..rows |-> [j \in 1..cols |->
        RngDraw(RngAfter(s, (b - 1) * cols + (j - 1)))]]

\* Storing a float64 in an array of dtype floatX: float32 keeps fewer
\* digits (here: the value without its last binary digit).
Cast(fx, v) == IF fx = "float32" THEN v - (v % 2) ELSE v

\* The sequence families: the function's source text and argument names as
\* inspect.getargspec reports them.  The arguments before the last one are
\* the parameters.
Funcs ==
    { [src |-> "lambda a, x: a * x",        args |-> <<"a", "x">>],
      [src |-> "lambda a, b, x: a * x + b", args |-> <<"a", "b", "x">>] }

\* The function on scalars: parameters p (a list) and time t.
FuncScalar(f, p, t) ==
    IF Len(f.args) = 2 THEN p[1] * t ELSE p[1] * t + p[2]

\* numpy arrays of one or two dimensions, all rows of the same length;
\* an array of one dimension has one row.
Array1(row)      == [ndim |-> 1, rows |-> <<row>>]
\* numpy.asarray of a Python list of arrays of one dimension
AsArray(list)    == [ndim |-> 2, rows |-> list]

\* An elementwise binary operation ("mul" or "add") with numpy's
\* broadcasting of a one-dimensional operand along the rows of a
\* two-dimensional one.
Broadcast(op, a, b) ==
    LET n     == IF Len(a.rows) > Len(b.rows) THEN Len(a.rows) ELSE Len(b.rows)
        ra(r) == IF Len(a.rows) = 1 THEN a.rows[1] ELSE a.rows[r]
        rb(r) == IF Len(b.rows) = 1 THEN b.rows[1] ELSE b.rows[r]
    IN  [ndim |-> IF a.ndim > b.ndim THEN a.ndim ELSE b.ndim,
         rows |-> [r \in 1..n |->
                     [c \in DOMAIN ra(r) |->
                        IF op = "mul" THEN ra(r)[c] * rb(r)[c]
                                      ELSE ra(r)[c] + rb(r)[c]]]]

\* func(*arglist): a TypeError when the number of arguments is not the
\* function's, else the value of the function's body on the arguments.
FuncCall(f, arglist) ==
    IF Len(arglist) # Len(f.args)
    THEN [kind |-> "TypeError", value |-> Array1(<<>>)]
    ELSE [kind  |-> "ok",
          value |-> IF Len(f.args) = 2
                    THEN Broadcast("mul", arglist[1], arglist[2])
                    ELSE Broadcast("add",
                            Broadcast("mul", arglist[1], arglist[3]),
                            arglist[2])]

\* SeriesIterator.__init__
SeriesIteratorInit(rng, func, seq_len, batch_size) ==
    [rng |-> rng, func |-> func, seq_len |-> seq_len,
     batch_size |-> batch_size, num_params |-> Len(func.args) - 1]

NoOut == [kind |-> "none", params |-> <<>>, x |-> <<>>]

\* The argument list next calls func with at time step i (from 0): one
\* list holding the columns of params, and the time vector.
NextArgs(params, k, B, i) ==
    <<AsArray([j \in 1..k |-> [b \in 1..B |-> params[b][j]]])>>
    \o <<Array1([b \in 1..B |-> i])>>

\* x[i, :, 0] = value: a value of shape (1, B) or (B,) fills the row,
\* another shape is a ValueError.
RowOf(fx, value) == [b \in DOMAIN value.rows[1] |->
                        <<Cast(fx, value.rows[1][b])>>]

\* SeriesIterator.next on the iterator it with the draws taken from the
\* generator state s: the outcome of the call.
NextFrom(it, s, fx) ==
    LET B      == it.batch_size
        k      == it.num_params
        L      == it.seq_len
        params == [b \in 1..B |-> [j \in 1..k |->
                     Cast(fx, Uniform(s, B, k)[b][j])]]
        call(i) == FuncCall(it.func, NextArgs(params, k, B, i))
        bad    == {i \in 0..(L - 1) :
                     \/ call(i).kind # "ok"
                     \/ Len(call(i).value.rows) # 1}
    IN  IF bad # {}
        THEN LET i == CHOOSE m \in bad : \A n \in bad : m <= n IN
             [NoOut EXCEPT !.kind = IF call(i).kind # "ok"
                                    THEN call(i).kind ELSE "ValueError"]
        ELSE [kind   |-> "batch",
              params |-> params,
              x      |-> [i \in 1..L |-> RowOf(fx, call(i - 1).value)]]

SeriesInit ==
    /\ floatX \in {"float64", "float32"}
    /\ \E f \in Funcs, L \in 0..MaxSeqLen, B \in 1..MaxBatch :
          built \in [1..2 -> [seed : 1..MaxSeed, func : {f},
                              seq_len : {L}, batch_size : {B}]]
    /\ iters = [i \in 1..2 |->
                  SeriesIteratorInit(RandomState(built[i].seed), built[i].func,
                                     built[i].seq_len, built[i].batch_size)]
    /\ calls = [i \in 1..2 |-> 0]
    /\ outs = [i \in 1..2 |-> NoOut]
    /\ globalRng = RandomState(0)

SeriesIdle ==
    /\ floatX = "float64"
    /\ built = <<>>
    /\ iters = <<>>
    /\ calls = <<>>
    /\ outs = <<>>
    /\ globalRng = RandomState(0)

\* next that draws from numpy.random's module-level generator instead of
\* the iterator's own.
SeriesNextGlobal(i) ==
    /\ calls[i] < MaxCalls
    /\ outs' = [outs EXCEPT ![i] = NextFrom(iters[i], globalRng, floatX)]
    /\ globalRng' = RngAfter(globalRng,
                             iters[i].batch_size * iters[i].num_params)
    /\ calls' = [calls EXCEPT ![i] = @ + 1]
    /\ UNCHANGED <<floatX, built, iters>>
    /\ UNCHANGED <<wrapperVars, costVars, mainVars>>

\* One call of next on iterator i: the draws advance the iterator's own
\* random source (also when the call then raises).
SeriesNext(i) ==
    /\ calls[i] < MaxCalls
    /\ outs' = [outs EXCEPT ![i] = NextFrom(iters[i], iters[i].rng, floatX)]
    /\ iters' = [iters EXCEPT ![i].rng =
                    RngAfter(@, iters[i].batch_size * iters[i].num_params)]
    /\ calls' = [calls EXCEPT ![i] = @ + 1]
    /\ UNCHANGED <<floatX, built, globalRng>>
    /\ UNCHANGED <<wrapperVars, costVars, mainVars>>

SeriesStep == \E i \in 1..2 : SeriesNext(i)

(***************************************************************************)
(*                      Readout.cost (sine.py 28-38)                       *)
(***************************************************************************)
MaxFinite == 1      \* the largest finite float; beyond it a result is inf
MaxElems  == 2      \* elements of one tensor of a batch

\* Floats: the finite values -MaxFinite..MaxFinite, the two infinities and
\* NaN, with IEEE arithmetic (a result out of range is an infinity).
PosInf == [k |-> "inf",  v |-> 0]
NegInf == [k |-> "-inf", v |-> 0]
NaN    == [k |-> "nan",  v |-> 0]
Fin(n) == IF n > MaxFinite THEN PosInf
          ELSE IF n < 0 - MaxFinite THEN NegInf
          ELSE [k |-> "fin", v |-> n]
Zero   == Fin(0)

FNeg(a) == CASE a.k = "inf"  -> NegInf
             [] a.k = "-inf" -> PosInf
             [] a.k = "nan"  -> NaN
             [] OTHER        -> Fin(0 - a.v)

FAdd(a, b) ==
    CASE a.k = "nan" \/ b.k = "nan"                        -> NaN
      [] a.k = "fin" /\ b.k = "fin"                        -> Fin(a.v + b.v)
      [] a.k = "fin"                                       -> b
      [] b.k = "fin"                                       -> a
      [] a.k = b.k                                         -> a
      [] OTHER                                             -> NaN

FSub(a, b) == FAdd(a, FNeg(b))

\* a ** 2
FSquare(a) == CASE a.k = "nan" -> NaN
                [] a.k = "fin" -> Fin(a.v * a.v)
                [] OTHER       -> PosInf

\* a == b on floats: NaN equals nothing.
FEq(a, b) == a.k # "nan" /\ b.k # "nan" /\ a = b

\* a >= 0 on floats
FNonNeg(a) == a.k = "inf" \/ (a.k = "fin" /\ a.v >= 0)

RECURSIVE FSum(_)
\* The sum of a vector, from 0.
FSum(row) == IF row = <<>> THEN Zero
             ELSE FAdd(FSum(SubSeq(row, 1, Len(row) - 1)), row[Len(row)])

\* Readout.cost with the differences summed, not their squares.
CostOfDifferences(r, o) ==
    [b \in DOMAIN r |-> FSum([f \in DOMAIN r[b] |-> FSub(r[b][f], o[b][f])])]

\* Readout.cost(readouts, outputs) on tensors of shape (examples,
\* features): ((readouts - outputs) ** 2).sum(axis=readouts.ndim - 1)
ReadoutCost(r, o) ==
    [b \in DOMAIN r |->
        FSum([f \in DOMAIN r[b] |-> FSquare(FSub(r[b][f], o[b][f]))])]

InputFloats == {Fin(0), Fin(1), PosInf, NaN}

\* The shapes (examples, features) of a batch.
Shapes == {sh \in (1..MaxElems) \X (1..MaxElems) : sh[1] * sh[2] <= MaxElems}

CostInit ==
    /\ \E sh \in Shapes :
          /\ readouts \in [1..sh[1] -> [1..sh[2] -> InputFloats]]
          /\ outputs  \in [1..sh[1] -> [1..sh[2] -> InputFloats]]
    /\ costs = <<>>

CostIdle ==
    /\ readouts = <<>>
    /\ outputs = <<>>
    /\ costs = <<>>

\* cost is called on the batch.
CostCall ==
    /\ costs = <<>>
    /\ readouts # <<>>
    /\ costs' = ReadoutCost(readouts, outputs)
    /\ UNCHANGED <<readouts, outputs>>
    /\ UNCHANGED <<wrapperVars, seriesVars, mainVars>>

(***************************************************************************)
(*                  main() of sine.py (sine.py 127-212)                    *)
(***************************************************************************)
MaxRuns  == 2       \* runs of sine.py, one after the other
MaxSteps == 2       \* training steps of one run

\* The command lines: the mode word as typed, the prefix, --function and
\* --params (absent: <<>>; given with n numbers: <<n>>).
Modes    == {"train", "plot", "sample"}
Prefixes == {"sine", "run2_"}
CommandLines ==
    [mode : Modes, prefix : Prefixes, function : Funcs,
     params : {<<>>, <<1>>, <<2>>}]

NoArgs == [mode |-> "", prefix |-> "", function |-> CHOOSE f \in Funcs : TRUE,
           params |-> <<>>]

\* sine.py 8-13: MainLoop, SGD and pyplot are imported in this order inside
\* one try whose except passes, so a name is defined when its import and
\* the ones before it succeeded.
Defined(name) ==
    CASE name = "MainLoop" -> env.groundhog
      [] name = "SGD"      -> env.groundhog
      [] name = "pyplot"   -> env.groundhog /\ env.matplotlib
      [] OTHER             -> TRUE

\* The path plot mode loads the parameters from (sine.py 194).
SnapshotPath(prefix) == prefix \o "model.npz"

\* The path the training main loop saves the parameters to.
SavedPath(prefix) == prefix \o "model.npz"

LoadEvent(path) == "load_params(" \o path \o ")"

\* The run is over: back to the shell.
End(how) ==
    /\ pc' = "idle"
    /\ outcome' = how

MainIdle ==
    /\ env = [groundhog |-> TRUE, matplotlib |-> TRUE]
    /\ argv = NoArgs
    /\ pc = "idle"
    /\ log = <<>>
    /\ files = EmptyDict
    /\ steps = 0
    /\ nruns = 0
    /\ outcome = ""
    /\ mpc = "idle"
    /\ mlog = <<>>

MainInit ==
    /\ env \in [groundhog : BOOLEAN, matplotlib : BOOLEAN]
    /\ argv = NoArgs
    /\ pc = "idle"
    /\ log = <<>>
    /\ files = EmptyDict
    /\ steps = 0
    /\ nruns = 0
    /\ outcome = ""
    /\ mpc = "start"
    /\ mlog = <<>>

others == <<wrapperVars, seriesVars, costVars>>

\* The script is started from the shell.
StartRun ==
    /\ pc = "idle"
    /\ nruns < MaxRuns
    /\ argv' \in CommandLines
    /\ pc' = "parse_args"
    /\ log' = <<>>
    /\ steps' = 0
    /\ nruns' = nruns + 1
    /\ outcome' = ""
    /\ UNCHANGED <<env, files, mpc, mlog, others>>

\* sine.py 132-157: the parser rejects a mode that is not among its
\* choices.
ParseArgs ==
    /\ pc = "parse_args"
    /\ IF argv.mode \in {"train", "plot"}
       THEN pc' = "eval_function" /\ UNCHANGED outcome
       ELSE End("SystemExit")
    /\ UNCHANGED <<env, argv, log, files, steps, nruns, mpc, mlog, others>>

\* sine.py 159-160
EvalFunction ==
    /\ pc = "eval_function"
    /\ pc' = "build"
    /\ UNCHANGED <<env, argv, log, files, steps, nruns, outcome, mpc, mlog,
                   others>>

\* sine.py 162-170: the bricks are constructed.
BuildGenerator ==
    /\ pc = "build"
    /\ log' = log \o <<"GatedRecurrent", "AddParameters", "SequenceGenerator">>
    /\ pc' = "allocate"
    /\ UNCHANGED <<env, argv, files, steps, nruns, outcome, mpc, mlog, others>>

\* sine.py 171
Allocate ==
    /\ pc = "allocate"
    /\ log' = Append(log, "generator.allocate")
    /\ pc' = "log_params"
    /\ UNCHANGED <<env, argv, files, steps, nruns, outcome, mpc, mlog, others>>

\* sine.py 172-173
LogParams ==
    /\ pc = "log_params"
    /\ log' = Append(log, "Selector(generator).get_params")
    /\ pc' = "branch"
    /\ UNCHANGED <<env, argv, files, steps, nruns, outcome, mpc, mlog, others>>

\* sine.py 175, 193, 211-212: the mode decides the branch; the last branch
\* is assert False.
Branch ==
    /\ pc = "branch"
    /\ CASE argv.mode = "train" -> pc' = "train_seed" /\ UNCHANGED outcome
         [] argv.mode = "plot"  -> pc' = "load_params" /\ UNCHANGED outcome
         [] OTHER               -> End("AssertionError")
    /\ log' = IF argv.mode \in {"train", "plot"} THEN log
              ELSE Append(log, "assert False")
    /\ UNCHANGED <<env, argv, files, steps, nruns, mpc, mlog, others>>

\* Train mode that goes on to build the cost without generator.initialize().
TrainSeedNoInitialize ==
    /\ pc = "train_seed"
    /\ pc' = "build_cost"
    /\ UNCHANGED <<env, argv, log, files, steps, nruns, outcome, mpc, mlog,
                   others>>

\* sine.py 176-178
TrainSeed ==
    /\ pc = "train_seed"
    /\ pc' = "initialize"
    /\ UNCHANGED <<env, argv, log, files, steps, nruns, outcome, mpc, mlog,
                   others>>

\* sine.py 180
Initialize ==
    /\ pc = "initialize"
    /\ log' = Append(log, "generator.initialize")
    /\ pc' = "build_cost"
    /\ UNCHANGED <<env, argv, files, steps, nruns, outcome, mpc, mlog, others>>

\* sine.py 182-184
BuildCost ==
    /\ pc = "build_cost"
    /\ log' = Append(log, "generator.cost")
    /\ pc' = "train_setup"
    /\ UNCHANGED <<env, argv, files, steps, nruns, outcome, mpc, mlog, others>>

\* sine.py 186-191: the model, the state, the data iterator, the trainer
\* and the main loop are built; SGD and MainLoop are names of the optional
\* imports.
TrainSetup ==
    /\ pc = "train_setup"
    /\ IF Defined("SGD") /\ Defined("MainLoop")
       THEN /\ log' = log \o <<"GroundhogModel", "GroundhogState",
                               "SeriesIterator", "SGD", "MainLoop">>
            /\ pc' = "main_loop"
            /\ UNCHANGED outcome
       ELSE /\ log' = log \o <<"GroundhogModel", "GroundhogState",
                               "SeriesIterator">>
            /\ End("NameError")
    /\ UNCHANGED <<env, argv, files, steps, nruns, mpc, mlog, others>>

\* sine.py 192: one training step of main_loop.main().
TrainStep ==
    /\ pc = "main_loop"
    /\ steps < MaxSteps
    /\ steps' = steps + 1
    /\ log' = Append(log, "train_step")
    /\ UNCHANGED <<env, argv, pc, files, nruns, outcome, mpc, mlog, others>>

\* sine.py 192: main_loop.main() ends, having saved the parameters.
TrainFinish ==
    /\ pc = "main_loop"
    /\ files' = DictSet(files, SavedPath(argv.prefix), argv.function.src)
    /\ log' = Append(log, "save")
    /\ End("ok")
    /\ UNCHANGED <<env, argv, steps, nruns, mpc, mlog, others>>

\* sine.py 194: load_params fails when there is no file at the path.
LoadParams ==
    /\ pc = "load_params"
    /\ log' = Append(log, LoadEvent(SnapshotPath(argv.prefix)))
    /\ IF SnapshotPath(argv.prefix) \in DOMAIN files
       THEN pc' = "build_sample" /\ UNCHANGED outcome
       ELSE End("IOError")
    /\ UNCHANGED <<env, argv, files, steps, nruns, mpc, mlog, others>>

\* sine.py 196-198
BuildSample ==
    /\ pc = "build_sample"
    /\ log' = log \o <<"generator.generate", "theano.function">>
    /\ pc' = "param_values"
    /\ UNCHANGED <<env, argv, files, steps, nruns, outcome, mpc, mlog, others>>

\* sine.py 200-201: args.params is None when --params was not given, and
\* None has no split.
ParamValues ==
    /\ pc = "param_values"
    /\ IF argv.params = <<>>
       THEN End("AttributeError")
       ELSE pc' = "sample" /\ UNCHANGED outcome
    /\ UNCHANGED <<env, argv, log, files, steps, nruns, mpc, mlog, others>>

\* sine.py 202-203: the compiled function takes a (1, num_params) matrix.
Sample ==
    /\ pc = "sample"
    /\ log' = Append(log, "sample")
    /\ IF argv.params[1] = Len(argv.function.args) - 1
       THEN pc' = "desired" /\ UNCHANGED outcome
       ELSE End("ValueError")
    /\ UNCHANGED <<env, argv, files, steps, nruns, mpc, mlog, others>>

\* sine.py 205-207: the function is called with the parameter values and
\* the time as separate arguments.
Desired ==
    /\ pc = "desired"
    /\ pc' = "pyplot"
    /\ UNCHANGED <<env, argv, log, files, steps, nruns, outcome, mpc, mlog,
                   others>>

\* sine.py 209-210
Plot ==
    /\ pc = "pyplot"
    /\ IF Defined("pyplot")
       THEN log' = Append(log, "pyplot.plot") /\ End("ok")
       ELSE UNCHANGED log /\ End("NameError")
    /\ UNCHANGED <<env, argv, files, steps, nruns, mpc, mlog, others>>

(***************************************************************************)
(*                   main() of mnist.py (mnist.py 27-76)                   *)
(***************************************************************************)
\* The statements of main, in order: the label of each and the call it
\* logs.
MnistStep(at, call, to) ==
    /\ mpc = at
    /\ mlog' = Append(mlog, call)
    /\ mpc' = to
    /\ UNCHANGED <<env, argv, pc, log, files, steps, nruns, outcome, others>>

\* mnist.py 28-30
MnistBuild      == MnistStep("start", "MLP", "initialize")
\* mnist.py 31
MnistInitialize == MnistStep("initialize", "mlp.initialize", "apply")
\* mnist.py 32-36
MnistApply      == MnistStep("apply", "mlp.apply", "graph")
\* mnist.py 38-41
MnistGraph      == MnistStep("graph", "ComputationGraph", "data")
\* mnist.py 43-44
MnistData       == MnistStep("data", "MNIST", "algorithm")
\* mnist.py 46-48
MnistAlgorithm  == MnistStep("algorithm", "GradientDescent", "main_loop")
\* mnist.py 49-75
MnistMainLoop   == MnistStep("main_loop", "MainLoop", "run")
\* mnist.py 76
MnistRun        == MnistStep("run", "main_loop.run", "done")

MainNext ==
    \/ StartRun
    \/ ParseArgs
    \/ EvalFunction
    \/ BuildGenerator
    \/ Allocate
    \/ LogParams
    \/ Branch
    \/ TrainSeed
    \/ Initialize
    \/ BuildCost
    \/ TrainSetup
    \/ TrainStep
    \/ TrainFinish
    \/ LoadParams
    \/ BuildSample
    \/ ParamValues
    \/ Sample
    \/ Desired
    \/ Plot
    \/ MnistBuild
    \/ MnistInitialize
    \/ MnistApply
    \/ MnistGraph
    \/ MnistData
    \/ MnistAlgorithm
    \/ MnistMainLoop
    \/ MnistRun

(***************************************************************************)
(*                           The specifications                            *)
(***************************************************************************)
WrapperStart == WrapperInit /\ SeriesIdle /\ CostIdle /\ MainIdle
SeriesStart  == WrapperIdle /\ SeriesInit /\ CostIdle /\ MainIdle
CostStart    == WrapperIdle /\ SeriesIdle /\ CostInit /\ MainIdle
MainStart    == WrapperIdle /\ SeriesIdle /\ CostIdle /\ MainInit

WrapperSpec == WrapperStart /\ [][WrapperNext]_vars
SeriesSpec  == SeriesStart /\ [][SeriesStep]_vars
CostSpec    == CostStart /\ [][CostCall]_vars
MainSpec    == MainStart /\ [][MainNext]_vars

(***************************************************************************)
(*                               The claims                                *)
(***************************************************************************)
AdderNames(b) == [i \in DOMAIN b.adders |-> b.adders[i].name]

\* C1: for a wrapped transition with exactly one state name and N forkable
\* input names, construction leaves N adders, one per input name and in the
\* order of input_names, and one init projection, with children
\* [transition] + adders + [init]; after _push_allocation_config every adder
\* maps num_params to the declared dimension of its own input name and init
\* maps num_params to the declared dimension of the state name.
C1_Projections ==
    (Len(transition.state_names) = 1 /\ brick.status # "unconstructed") =>
        LET names == transition.forkable_input_names IN
        /\ brick.status = "constructed"
        /\ brick.input_names = names
        /\ Len(brick.adders) = Len(names)
        /\ \A i \in DOMAIN names : brick.adders[i].name = "add_" \o names[i]
        /\ Len(brick.init) = 1
        /\ brick.init[1].name = "init"
        /\ brick.children = <<"transition">> \o AdderNames(brick) \o <<"init">>
        /\ brick.pushed =>
             /\ \A i \in DOMAIN names :
                   brick.adders[i].dims =
                       <<num_params, transition.dims[names[i]]>>
             /\ brick.init[1].dims =
                   <<num_params, transition.dims[transition.state_names[1]]>>

\* C1 witness: two forkable inputs of different declared dimensions, the
\* wrapper constructed and its allocation configuration pushed.
C1_Witness ==
    /\ brick.status = "constructed"
    /\ brick.pushed
    /\ Len(transition.forkable_input_names) = 2
    /\ transition.dims[transition.forkable_input_names[1]]
         # transition.dims[transition.forkable_input_names[2]]
    /\ transition.dims[transition.forkable_input_names[1]]
         # transition.dims[transition.state_names[1]]

\* C2: construction over a transition with two or more state names ends in
\* the assertion's error, and the wrapper has no adders, no init projection
\* and no children list.
C2_TwoStatesFail ==
    (Len(transition.state_names) >= 2 /\ brick.status # "unconstructed") =>
        /\ brick.status = "AssertionError"
        /\ brick.adders = <<>>
        /\ brick.init = <<>>
        /\ brick.children = <<>>

\* C2 witness: a construction over two state names and at least one
\* forkable input has ended.
C2_Witness ==
    /\ Len(transition.state_names) = 2
    /\ Len(transition.forkable_input_names) >= 1
    /\ brick.status = "AssertionError"

\* C4: at every call of apply, every forkable input reaches the wrapped
\* transition as its value plus its own adder applied to the parameter
\* vector (the keyword of the declared context name params_name), every
\* other keyword but the parameter vector is forwarded unchanged, and the
\* parameter vector is not forwarded.
C4_ApplyForwards ==
    applied.called =>
        LET names == brick.input_names
            kw    == applied.kwargs
            fwd   == applied.forwarded
        IN
        /\ applied.outcome = "ok"
        /\ \A i \in DOMAIN names :
              /\ names[i] \in DOMAIN fwd
              /\ fwd[names[i]] =
                    Plus(kw[names[i]],
                         BrickApply(brick.adders[i].name, kw[params_name]))
        /\ \A k \in (DOMAIN kw) \ (Range(names) \cup {params_name}) :
              k \in DOMAIN fwd /\ fwd[k] = kw[k]
        /\ params_name \notin DOMAIN fwd

\* C10: the wrapper knows the parameter vector by the one name params_name:
\* the reported signature declares it as a context, and a caller that
\* passes the vector under that name gets a successful initialize_state and
\* a successful apply, which consumes it.
C10_OneName ==
    /\ requests > 0 => params_name \in Range(reported.context_names)
    /\ (initState.called /\ params_name \in DOMAIN initState.kwargs) =>
          /\ initState.outcome = "ok"
          /\ initState.result =
                BrickApply("init", initState.kwargs[params_name])
    /\ (applied.called /\ params_name \in DOMAIN applied.kwargs) =>
          /\ applied.outcome = "ok"
          /\ params_name \notin DOMAIN applied.forwarded

\* What C9 says of the reported signature apart from how often params_name
\* occurs among the context names.
C9_ThreeChanges ==
    /\ requests > 0 =>
          /\ reported.forkable_input_names = transition.forkable_input_names
          /\ reported.state_names = transition.state_names
          /\ Len(reported.context_names) = Len(transition.context_names) + 1
          /\ SubSeq(reported.context_names, 1, Len(transition.context_names))
                = transition.context_names
          /\ reported.context_names[Len(reported.context_names)] = params_name
          /\ DOMAIN reported.dims = (DOMAIN transition.dims) \cup {params_name}
          /\ reported.dims[params_name] = num_params
          /\ \A n \in (DOMAIN transition.dims) \ {params_name} :
                reported.dims[n] = transition.dims[n]
          /\ DOMAIN reported.state_init_funcs = DOMAIN transition.state_init_funcs
          /\ reported.state_init_funcs[brick.state_name]
                = "with_params.initialize_state"
          /\ \A n \in (DOMAIN transition.state_init_funcs) \ {brick.state_name} :
                reported.state_init_funcs[n] = transition.state_init_funcs[n]
    /\ (initState.called /\ initState.outcome = "ok") =>
          initState.result = BrickApply("init", initState.kwargs[params_name])

C3_NextBatch ==
    \A n \in DOMAIN iters : calls[n] > 0 =>
        LET it == iters[n]
            o  == outs[n]
        IN
        /\ o.kind = "batch"
        /\ Len(o.params) = it.batch_size
        /\ \A b \in DOMAIN o.params : Len(o.params[b]) = it.num_params
        /\ Len(o.x) = it.seq_len
        /\ \A t \in DOMAIN o.x :
              /\ Len(o.x[t]) = it.batch_size
              /\ \A b \in DOMAIN o.x[t] :
                    o.x[t][b] =
                       <<Cast(floatX, FuncScalar(it.func, o.params[b], t - 1))>>

AllPositions(t) == {<<b, f>> : b \in DOMAIN t, f \in DOMAIN t[1]}

\* C6 as claimed: the cost is zero for every example of a batch whose
\* readouts equal the outputs elementwise, and the cost of every example of
\* every batch is non-negative.
C6_CostZeroNonNegative ==
    costs # <<>> =>
        /\ DOMAIN costs = DOMAIN readouts
        /\ (\A p \in AllPositions(readouts) :
               FEq(readouts[p[1]][p[2]], outputs[p[1]][p[2]]))
             => \A b \in DOMAIN costs : costs[b] = Zero
        /\ \A b \in DOMAIN costs : FNonNeg(costs[b])

\* C6 as amended: the cost is zero for every example of a batch whose
\* readouts equal the outputs elementwise and are finite, and the cost of
\* every example is non-negative (a number or +infinity) for every batch
\* that holds no NaN and nowhere the same infinity in readouts and outputs.
C6_CostFinite ==
    costs # <<>> =>
        /\ DOMAIN costs = DOMAIN readouts
        /\ (\A p \in AllPositions(readouts) :
               /\ FEq(readouts[p[1]][p[2]], outputs[p[1]][p[2]])
               /\ readouts[p[1]][p[2]].k = "fin")
             => \A b \in DOMAIN costs : costs[b] = Zero
        /\ (\A p \in AllPositions(readouts) :
               /\ readouts[p[1]][p[2]].k # "nan"
               /\ outputs[p[1]][p[2]].k # "nan"
               /\ \/ readouts[p[1]][p[2]].k = "fin"
                  \/ readouts[p[1]][p[2]] # outputs[p[1]][p[2]])
             => \A b \in DOMAIN costs : FNonNeg(costs[b])

\* C6 witness: the cost of a finite batch of two features whose readouts
\* equal the outputs and are not all zero.
C6_Witness ==
    /\ costs # <<>>
    /\ readouts = outputs
    /\ Len(readouts[1]) = 2
    /\ readouts[1] = <<Fin(1), Fin(0)>>

Pos(l, e) == {i \in DOMAIN l : l[i] = e}

\* Every b of the log has an a before it.
Before(l, a, b) == \A j \in Pos(l, b) : \E i \in Pos(l, a) : i < j

LoadEvents  == {LoadEvent(p \o "model.npz") : p \in Prefixes}
TrainEvents == {"generator.initialize", "generator.cost", "train_step", "save"}
PlotEvents  == LoadEvents \cup {"generator.generate", "theano.function",
                                "sample", "pyplot.plot"}

\* C7: a train-mode run with prefix P leaves a snapshot at P + "model.npz",
\* and a later plot-mode run with the same prefix and function loads from
\* exactly that path and ends without error.
C7_EndToEnd ==
    /\ (pc = "idle" /\ argv.mode = "train" /\ outcome = "ok") =>
          (argv.prefix \o "model.npz") \in DOMAIN files
    /\ (/\ pc = "idle"
        /\ argv.mode = "plot"
        /\ outcome # ""
        /\ (argv.prefix \o "model.npz") \in DOMAIN files
        /\ files[argv.prefix \o "model.npz"] = argv.function.src) =>
          /\ LoadEvent(argv.prefix \o "model.npz") \in Range(log)
          /\ outcome = "ok"

\* C8: in a run of sine.py generator.allocate() comes before every other
\* use of the generator; in train mode generator.initialize() comes before
\* the cost and before the first training step; in plot mode load_params
\* comes before the sampling function is built and called, and nothing is
\* initialized or trained; one run does one mode only and never reaches
\* assert False; in mnist.py mlp.initialize() comes before mlp.apply and
\* before the training loop runs.
C8_CallOrder ==
    /\ \A u \in TrainEvents \cup PlotEvents
                \cup {"Selector(generator).get_params"} :
          Before(log, "generator.allocate", u)
    /\ Before(log, "generator.initialize", "generator.cost")
    /\ Before(log, "generator.initialize", "train_step")
    /\ \A ld \in LoadEvents :
          ld \in Range(log) => ld = LoadEvent(argv.prefix \o "model.npz")
    /\ \A u \in {"generator.generate", "theano.function", "sample"} :
          Before(log, LoadEvent(argv.prefix \o "model.npz"), u)
    /\ argv.mode = "plot" => Range(log) \cap TrainEvents = {}
    /\ argv.mode = "train" => Range(log) \cap PlotEvents = {}
    /\ (Range(log) \cap TrainEvents = {}) \/ (Range(log) \cap PlotEvents = {})
    /\ (pc \notin {"idle", "parse_args"}) => argv.mode \in {"train", "plot"}
    /\ "assert False" \notin Range(log)
    /\ outcome # "AssertionError"
    /\ Before(mlog, "mlp.initialize", "mlp.apply")
    /\ Before(mlog, "mlp.initialize", "main_loop.run")

\* C8 witness: a plot run has ended well after a train run, and the MNIST
\* script has run to its end.
C8_Witness ==
    /\ pc = "idle"
    /\ argv.mode = "plot"
    /\ outcome = "ok"
    /\ "pyplot.plot" \in Range(log)
    /\ mpc = "done"

=============================================================================
